---- MODULE Spec2Model ----
(***************************************************************************)
(* Model of txttrim's app.py: the /shorten handler (URL shortening through *)
(* is.gd, the compaction call, the hard cap, fragment and cost accounting) *)
(* and the stats.json ledger it loads and rewrites.                        *)
(*                                                                         *)
(* A text is a sequence of one-character strings.  Money is counted in     *)
(* 1/10000 of a pound, so that SMS_COST_PER_FRAGMENT (0.0225) is 225.      *)
(***************************************************************************)
EXTENDS Integers, Sequences, FiniteSets, TLC

\* ------------------------------------------------------------------ bounds

\* number of requests the hosting runtime serves (possibly at once) in Spec
NumRequests == 2

\* a request text of SpecOne is a concatenation of at most MaxPieces pieces
MaxPieces == 4

\* largest text length the fragment specification SpecFrag draws
MaxLen == 330

\* ------------------------------------------------------------------ constants

SMS_COST_PER_FRAGMENT == 225

FRAG_SIZE == 160

Whitespace == {" ", "\n", "\t"}

\* Python's None, as a value comparable with texts
None == <<"None">>

HTTP == <<"h", "t", "t", "p", ":", "/", "/">>

HTTPS == <<"h", "t", "t", "p", "s", ":", "/", "/">>

\* ------------------------------------------------------------------ str helpers

Max(a, b) == IF a >= b THEN a ELSE b

StartsWithAt(s, i, p) ==
    /\ i + Len(p) - 1 <= Len(s)
    /\ \A k \in 1..Len(p) : s[i + k - 1] = p[k]

\* str.startswith
StartsWith(s, p) == StartsWithAt(s, 1, p)

SetMin(S) == CHOOSE x \in S : \A y \in S : x <= y

SetMax(S) == CHOOSE x \in S : \A y \in S : x >= y

\* str.lstrip(chars)
LStripSet(s, chars) ==
    LET keep == {k \in 1..Len(s) : s[k] \notin chars}
    IN  IF keep = {} THEN <<>> ELSE SubSeq(s, SetMin(keep), Len(s))

\* str.rstrip(chars)
RStripSet(s, chars) ==
    LET keep == {k \in 1..Len(s) : s[k] \notin chars}
    IN  IF keep = {} THEN <<>> ELSE SubSeq(s, 1, SetMax(keep))

\* str.strip()
Strip(s) == RStripSet(LStripSet(s, Whitespace), Whitespace)

\* s[:n] for n >= 0
Slice(s, n) == SubSeq(s, 1, IF n < Len(s) THEN n ELSE Len(s))

\* ------------------------------------------------------------------ regex https?://\S+

\* index of the first character after "http", an optional "s" and "://"
\* when that prefix stands at position i of s, else 0
SchemeEnd(s, i) ==
    IF StartsWithAt(s, i, HTTPS) THEN i + Len(HTTPS)
    ELSE IF StartsWithAt(s, i, HTTP) THEN i + Len(HTTP)
    ELSE 0

\* index of the last character of the run of non-whitespace that holds j
RunEnd(s, j) ==
    LET stops == {k \in j..Len(s) : s[k] \in Whitespace}
    IN  IF stops = {} THEN Len(s) ELSE SetMin(stops) - 1

\* the match of a pattern whose scheme is optional, (https?://)?\S+
MatchEndOptionalScheme(s, i) ==
    LET e == SchemeEnd(s, i)
        j == IF e = 0 THEN i ELSE e
    IN  IF j > Len(s) THEN 0
        ELSE IF s[j] \in Whitespace THEN 0
        ELSE RunEnd(s, j)

\* index of the last character of the match of url_pattern that starts at i,
\* or 0 when there is none (\S+ needs one character and is greedy)
MatchEnd(s, i) ==
    LET j == SchemeEnd(s, i)
    IN  IF j = 0 \/ j > Len(s) THEN 0
        ELSE IF s[j] \in Whitespace THEN 0
        ELSE RunEnd(s, j)

\* where the leftmost match at or after position i starts, 0 when there is none
NextMatch(s, i) ==
    LET starts == {k \in i..Len(s) : MatchEnd(s, k) # 0}
    IN  IF starts = {} THEN 0 ELSE SetMin(starts)

RECURSIVE FindAllFrom(_, _)
FindAllFrom(s, i) ==
    LET k == NextMatch(s, i)
    IN  IF k = 0 THEN <<>>
        ELSE <<SubSeq(s, k, MatchEnd(s, k))>> \o FindAllFrom(s, MatchEnd(s, k) + 1)

\* url_pattern.findall(text): the non-overlapping matches, left to right
FindAll(s) == FindAllFrom(s, 1)

\* repl(m): cache.get(u, u)
Repl(cache, u) == IF u \in DOMAIN cache THEN cache[u] ELSE u

RECURSIVE SubFrom(_, _, _)
SubFrom(s, cache, i) ==
    LET k == NextMatch(s, i)
    IN  IF k = 0 THEN SubSeq(s, i, Len(s))
        ELSE SubSeq(s, i, k - 1) \o Repl(cache, SubSeq(s, k, MatchEnd(s, k)))
                 \o SubFrom(s, cache, MatchEnd(s, k) + 1)

\* url_pattern.sub(repl, text)
Sub(s, cache) == SubFrom(s, cache, 1)

\* ------------------------------------------------------------------ is.gd

\* An outcome of SESSION.get: an exception (transport error, timeout), or
\* a response with a status code and a body.
IsgdExc == [kind |-> "exc", status_code |-> 0, text |-> <<>>]

IsgdResp(code, body) == [kind |-> "resp", status_code |-> code, text |-> body]

\* _shorten_with_isgd(url) when SESSION.get ends as `o`
_shorten_with_isgd(url, o) ==
    IF o.kind = "exc" THEN None
    ELSE IF o.status_code = 200 /\ StartsWith(o.text, <<"h", "t", "t", "p">>)
         THEN Strip(o.text)
         ELSE None

\* shorten_single_url without the fallback to the original URL
shorten_single_url_unguarded(url, o) == _shorten_with_isgd(url, o)

\* shorten_single_url(url): short or url
shorten_single_url(url, o) ==
    LET short == _shorten_with_isgd(url, o)
    IN  IF short = None \/ short = <<>> THEN url ELSE short

REMOVE_SCHEME_FOR_SHORTENERS == FALSE

SHORTENER_HOST == <<"i", "s", ".", "g", "d", "/">>

\* where the leftmost match of https?://(?:is\.gd)/ at or after i starts
NextShortener(s, i) ==
    LET starts == {k \in i..Len(s) :
                      SchemeEnd(s, k) # 0 /\ StartsWithAt(s, SchemeEnd(s, k), SHORTENER_HOST)}
    IN  IF starts = {} THEN 0 ELSE SetMin(starts)

RECURSIVE StripSchemeFrom(_, _)
StripSchemeFrom(s, i) ==
    LET k == NextShortener(s, i)
    IN  IF k = 0 THEN SubSeq(s, i, Len(s))
        ELSE SubSeq(s, i, k - 1) \o SHORTENER_HOST
                 \o StripSchemeFrom(s, SchemeEnd(s, k) + Len(SHORTENER_HOST))

\* strip_scheme_from_shorteners(text); the texts of the model are lower case
strip_scheme_from_shorteners(text) ==
    IF ~REMOVE_SCHEME_FOR_SHORTENERS THEN text ELSE StripSchemeFrom(text, 1)

\* ------------------------------------------------------------------ SMS helpers

\* _sms_fragments overcounting exact multiples
_sms_fragments_overcount(length, frag_size) == length \div frag_size + 1

\* _sms_fragments(length, frag_size): (length + frag_size - 1) // frag_size
_sms_fragments(length, frag_size) == (length + frag_size - 1) \div frag_size

\* the hard cap cutting one character too late
HardCapOffByOne(text, max_chars) ==
    IF Len(text) > max_chars
    THEN RStripSet(Slice(text, max_chars + 1), {".", " ", ","})
    ELSE text

\* the hard cap with the trailing punctuation stripped in both branches
HardCapAlwaysStrip(text, max_chars) ==
    IF Len(text) > max_chars
    THEN RStripSet(Slice(text, max_chars), {".", " ", ","})
    ELSE RStripSet(text, {".", " ", ","})

\* lines 157-161: (content or "").strip(), then the hard cap
HardCap(text, max_chars) ==
    IF Len(text) > max_chars
    THEN RStripSet(Slice(text, max_chars), {".", " ", ","})
    ELSE text

Normalize(content, max_chars) ==
    HardCap(Strip(IF content = None THEN <<>> ELSE content), max_chars)

\* characters_saved without the floor at zero
characters_saved_unclamped(original_length, shortened_length) ==
    original_length - shortened_length

\* line 165
characters_saved(original_length, shortened_length) ==
    Max(0, original_length - shortened_length)

\* cost_savings without the floor at zero
cost_savings_unclamped(original_sms_count, new_sms_count) ==
    (original_sms_count - new_sms_count) * SMS_COST_PER_FRAGMENT

\* line 169
cost_savings(original_sms_count, new_sms_count) ==
    Max(0, (original_sms_count - new_sms_count) * SMS_COST_PER_FRAGMENT)

\* round(x, 2) of a float x = k * 0.0225, in 1/10000 pounds (agrees with
\* Python's result for every k <= 21)
Round2(c) ==
    LET q == c \div 100
        m == c % 100
    IN  IF m < 50 THEN q * 100
        ELSE IF m > 50 THEN (q + 1) * 100
        ELSE IF q % 2 = 0 THEN q * 100 ELSE (q + 1) * 100

\* ------------------------------------------------------------------ stats.json

ZeroStats ==
    [total_sms_shortened |-> 0, total_characters_saved |-> 0, total_cost_saved |-> 0]

\* The file holds one JSON document ("json"), nothing ("empty": just opened
\* for writing), or bytes that do not parse ("junk").
FileJson(doc) == [content |-> "json", doc |-> doc]

FileEmpty == [content |-> "empty", doc |-> ZeroStats]

FileJunk == [content |-> "junk", doc |-> ZeroStats]

\* the three updates without the increment of the request count
RecordNoCount(stats, chars, cost) ==
    [total_sms_shortened |-> stats.total_sms_shortened,
     total_characters_saved |-> stats.total_characters_saved + chars,
     total_cost_saved |-> stats.total_cost_saved + cost]

\* the update with = in place of += for the characters saved
RecordOverwrite(stats, chars, cost) ==
    [total_sms_shortened |-> stats.total_sms_shortened + 1,
     total_characters_saved |-> chars,
     total_cost_saved |-> stats.total_cost_saved + cost]

\* lines 173-175
Record(stats, chars, cost) ==
    [total_sms_shortened |-> stats.total_sms_shortened + 1,
     total_characters_saved |-> stats.total_characters_saved + chars,
     total_cost_saved |-> stats.total_cost_saved + cost]

\* ------------------------------------------------------------------ inputs

URL_A == HTTP \o <<"a">>

URL_B == HTTPS \o <<"b">>

Pieces == {URL_A, URL_B, <<".">>, <<" ">>}

RECURSIVE TextsUpTo(_)
\* the concatenations of at most n pieces
TextsUpTo(n) ==
    IF n = 0 THEN {<<>>}
    ELSE LET prev == TextsUpTo(n - 1)
         IN  prev \cup {t \o p : t \in prev, p \in Pieces}

\* a text of two fragments
LongText == [i \in 1..(FRAG_SIZE + 1) |-> "a"]

SHORT_1 == HTTPS \o <<"1">>

SHORT_2 == HTTPS \o <<"2">>

\* what is.gd may answer: a short URL (with or without a final newline), an
\* error page with status 200, a short URL with a failure status, no answer
IsgdOutcomes ==
    {IsgdExc,
     IsgdResp(200, SHORT_1),
     IsgdResp(200, SHORT_2 \o <<"\n">>),
     IsgdResp(200, <<"E", "r", "r">>),
     IsgdResp(502, SHORT_1)}

OracleExc == [kind |-> "exc", content |-> None]

OracleContent(c) == [kind |-> "ok", content |-> c]

\* ------------------------------------------------------------------ state

VARIABLES
    stats_file,      \* the content of stats.json
    pc,              \* per request: where the handler stands
    req,             \* per request: the JSON body
    urls,            \* per request: url_pattern.findall(text)
    idx,             \* per request: position of the loop over urls
    cache,           \* per request: the dict of shorten_urls_in_text
    processed_text,  \* per request
    shortened_text,  \* per request
    stats,           \* per request: the dict load_stats returned, mutated
    response,        \* per request: the response sent
    calls,           \* per request: the outbound calls and file operations made
    persisted,       \* history: the JSON documents stats.json has held, in order
    serial,          \* history: no two requests have been in progress at once
    frag_len,        \* SpecFrag: the length given to _sms_fragments
    frag_count       \* SpecFrag: its result, -1 before the call

vars ==
    <<stats_file, pc, req, urls, idx, cache, processed_text, shortened_text,
      stats, response, calls, persisted, serial, frag_len, frag_count>>

Workers == 1..NumRequests

NoRequest ==
    [text |-> <<>>, max_chars |-> 0, shorten_urls |-> FALSE,
     business_sector |-> "General", protect_variables |-> TRUE,
     target_language |-> "English"]

NoResponse == [status |-> 0]

EmptyCache == [u \in {} |-> <<>>]

\* an outbound call or file operation, what it was given and how it ended
Event(op, arg, out) == [op |-> op, arg |-> arg, out |-> out]

Done == <<"done">>

Raised == <<"raised">>

Error(code, msg) == [status |-> code, error |-> msg]

InitRequests ==
    /\ stats_file = FileJson(ZeroStats)
    /\ pc = [r \in Workers |-> "idle"]
    /\ req = [r \in Workers |-> NoRequest]
    /\ urls = [r \in Workers |-> <<>>]
    /\ idx = [r \in Workers |-> 1]
    /\ cache = [r \in Workers |-> EmptyCache]
    /\ processed_text = [r \in Workers |-> <<>>]
    /\ shortened_text = [r \in Workers |-> <<>>]
    /\ stats = [r \in Workers |-> ZeroStats]
    /\ response = [r \in Workers |-> NoResponse]
    /\ calls = [r \in Workers |-> <<>>]
    /\ persisted = <<ZeroStats>>
    /\ serial = TRUE

Init ==
    /\ InitRequests
    /\ frag_len = 0
    /\ frag_count = -1

\* ------------------------------------------------------------------ the handler

Log(r, op, arg, out) == calls' = [calls EXCEPT ![r] = Append(@, Event(op, arg, out))]

InProgress(r) == pc[r] \notin {"idle", "done"}

Fail(r, code, msg) ==
    /\ response' = [response EXCEPT ![r] = Error(code, msg)]
    /\ pc' = [pc EXCEPT ![r] = "done"]

\* the handler without the test of line 121
ReceiveUnchecked(r, requests) ==
    /\ pc[r] = "idle"
    /\ \E q \in requests :
        /\ req' = [req EXCEPT ![r] = q]
        /\ IF q.shorten_urls
           THEN /\ urls' = [urls EXCEPT ![r] = FindAll(q.text)]
                /\ idx' = [idx EXCEPT ![r] = 1]
                /\ cache' = [cache EXCEPT ![r] = EmptyCache]
                /\ pc' = [pc EXCEPT ![r] = "urls"]
                /\ UNCHANGED processed_text
           ELSE /\ processed_text' = [processed_text EXCEPT ![r] = q.text]
                /\ pc' = [pc EXCEPT ![r] = "oracle"]
                /\ UNCHANGED <<urls, idx, cache>>
    /\ serial' = (serial /\ \A other \in Workers \ {r} : ~InProgress(other))
    /\ UNCHANGED <<stats_file, shortened_text, stats, response, calls, persisted,
                   frag_len, frag_count>>

\* a request arrives and its URLs are shortened whatever shorten_urls says
ReceiveAlwaysShorten(r, requests) ==
    /\ pc[r] = "idle"
    /\ \E q \in requests :
        /\ req' = [req EXCEPT ![r] = q]
        /\ IF q.text = <<>>
           THEN /\ Fail(r, 400, "No text provided")
                /\ UNCHANGED <<urls, idx, cache, processed_text>>
           ELSE /\ urls' = [urls EXCEPT ![r] = FindAll(q.text)]
                /\ idx' = [idx EXCEPT ![r] = 1]
                /\ cache' = [cache EXCEPT ![r] = EmptyCache]
                /\ pc' = [pc EXCEPT ![r] = "urls"]
                /\ UNCHANGED <<processed_text, response>>
    /\ serial' = (serial /\ \A other \in Workers \ {r} : ~InProgress(other))
    /\ UNCHANGED <<stats_file, shortened_text, stats, calls, persisted,
                   frag_len, frag_count>>

\* lines 115-129, up to the call of shorten_urls_in_text: a request arrives
Receive(r, requests) ==
    /\ pc[r] = "idle"
    /\ \E q \in requests :
        /\ req' = [req EXCEPT ![r] = q]
        /\ IF q.text = <<>>
           THEN /\ Fail(r, 400, "No text provided")
                /\ UNCHANGED <<urls, idx, cache, processed_text>>
           ELSE IF q.shorten_urls
           THEN /\ urls' = [urls EXCEPT ![r] = FindAll(q.text)]
                /\ idx' = [idx EXCEPT ![r] = 1]
                /\ cache' = [cache EXCEPT ![r] = EmptyCache]
                /\ pc' = [pc EXCEPT ![r] = "urls"]
                /\ UNCHANGED <<processed_text, response>>
           ELSE /\ processed_text' = [processed_text EXCEPT ![r] = q.text]
                /\ pc' = [pc EXCEPT ![r] = "oracle"]
                /\ UNCHANGED <<urls, idx, cache, response>>
    /\ serial' = (serial /\ \A other \in Workers \ {r} : ~InProgress(other))
    /\ UNCHANGED <<stats_file, shortened_text, stats, calls, persisted,
                   frag_len, frag_count>>

\* one turn of the loop with a cache that every request shares
ShortenLoopSharedCache(r, outcomes) ==
    /\ pc[r] = "urls"
    /\ idx[r] <= Len(urls[r])
    /\ LET u == urls[r][idx[r]]
           holders == {w \in Workers : u \in DOMAIN cache[w]}
       IN  IF holders # {}
           THEN /\ \E w \in holders :
                       cache' = [cache EXCEPT ![r] = (u :> cache[w][u]) @@ @]
                /\ UNCHANGED calls
           ELSE \E o \in outcomes :
                   /\ cache' = [cache EXCEPT ![r] = (u :> shorten_single_url(u, o)) @@ @]
                   /\ Log(r, "isgd", u, o)
    /\ idx' = [idx EXCEPT ![r] = @ + 1]
    /\ UNCHANGED <<stats_file, pc, req, urls, processed_text, shortened_text,
                   stats, response, persisted, serial, frag_len, frag_count>>

\* lines 82-84: one turn of the loop over urls
ShortenLoop(r, outcomes) ==
    /\ pc[r] = "urls"
    /\ idx[r] <= Len(urls[r])
    /\ LET u == urls[r][idx[r]]
       IN  IF u \in DOMAIN cache[r]
           THEN UNCHANGED <<cache, calls>>
           ELSE \E o \in outcomes :
                   /\ cache' = [cache EXCEPT ![r] = (u :> shorten_single_url(u, o)) @@ @]
                   /\ Log(r, "isgd", u, o)
    /\ idx' = [idx EXCEPT ![r] = @ + 1]
    /\ UNCHANGED <<stats_file, pc, req, urls, processed_text, shortened_text,
                   stats, response, persisted, serial, frag_len, frag_count>>

\* lines 86-90 and 127-129: the substitution, once the loop is over
Substitute(r) ==
    /\ pc[r] = "urls"
    /\ idx[r] > Len(urls[r])
    /\ LET replaced == Sub(req[r].text, cache[r])
       IN  processed_text' = [processed_text EXCEPT ![r] =
               IF REMOVE_SCHEME_FOR_SHORTENERS
               THEN strip_scheme_from_shorteners(replaced)
               ELSE replaced]
    /\ pc' = [pc EXCEPT ![r] = "oracle"]
    /\ UNCHANGED <<stats_file, req, urls, idx, cache, shortened_text, stats,
                   response, calls, persisted, serial, frag_len, frag_count>>

\* lines 132-136: the tone directive, a sequence of pieces of text
sector_instruction(business_sector) ==
    IF business_sector # "" /\ business_sector # "General"
    THEN <<" Adjust the tone to suit the ", business_sector, " sector.">>
    ELSE <<>>

\* lines 138-148: the prompt, as its interpolated values and its fixed lines
Prompt(max_chars, business_sector, text) ==
    [task |-> "You are a precise SMS message shortener. Your task is to shorten the following message to an **absolute maximum of {max_chars} characters**. The shortened message must retain the original meaning and tone (UK English spelling).",
     max_chars |-> max_chars,
     directives |->
        <<"Be as concise as possible.",
          "If needed, remove manners, filler words, or punctuation.",
          "If multiple links are included, all must remain in the final message.",
          "Do NOT exceed {max_chars} characters under any circumstance.",
          "Provide only the shortened SMS with no extra text or explanation.">>,
     sector_instruction |-> sector_instruction(business_sector),
     message |-> text]

\* lines 151-155: what client.chat.completions.create is given
OracleRequest(r) ==
    [prompt |-> Prompt(req[r].max_chars, req[r].business_sector, processed_text[r]),
     max_tokens |-> Max(16, req[r].max_chars \div 3)]

\* lines 150-169, and 188-190 when the call raises
CallOracle(r, outcomes) ==
    /\ pc[r] = "oracle"
    /\ \E o \in outcomes :
        /\ Log(r, "openai", OracleRequest(r), o)
        /\ IF o.kind = "exc"
           THEN /\ Fail(r, 500, "oracle")
                /\ UNCHANGED shortened_text
           ELSE /\ shortened_text' = [shortened_text EXCEPT ![r] =
                       Normalize(o.content, req[r].max_chars)]
                /\ pc' = [pc EXCEPT ![r] = "load"]
                /\ UNCHANGED response
    /\ UNCHANGED <<stats_file, req, urls, idx, cache, processed_text, stats,
                   persisted, serial, frag_len, frag_count>>

original_length(r) == Len(processed_text[r])

shortened_length(r) == Len(shortened_text[r])

original_sms_count(r) == _sms_fragments(original_length(r), 160)

new_sms_count(r) == _sms_fragments(shortened_length(r), 160)

\* lines 172-175: load_stats and the three updates of the dict; json.load
\* raises when the file holds no JSON document
LoadStats(r) ==
    /\ pc[r] = "load"
    /\ Log(r, "load", <<>>, IF stats_file.content = "json" THEN Done ELSE Raised)
    /\ IF stats_file.content = "json"
       THEN /\ stats' = [stats EXCEPT ![r] =
                   Record(stats_file.doc,
                          characters_saved(original_length(r), shortened_length(r)),
                          cost_savings(original_sms_count(r), new_sms_count(r)))]
            /\ pc' = [pc EXCEPT ![r] = "open"]
            /\ UNCHANGED response
       ELSE /\ Fail(r, 500, "load")
            /\ UNCHANGED stats
    /\ UNCHANGED <<stats_file, req, urls, idx, cache, processed_text,
                   shortened_text, persisted, serial, frag_len, frag_count>>

\* line 47 raising OSError
LoadStatsFails(r) ==
    /\ pc[r] = "load"
    /\ Log(r, "load", <<>>, Raised)
    /\ Fail(r, 500, "load")
    /\ UNCHANGED <<stats_file, req, urls, idx, cache, processed_text,
                   shortened_text, stats, persisted, serial, frag_len, frag_count>>

\* line 51: open(STATS_FILE, "w") truncates the file
SaveOpen(r) ==
    /\ pc[r] = "open"
    /\ Log(r, "open", <<>>, Done)
    /\ stats_file' = FileEmpty
    /\ pc' = [pc EXCEPT ![r] = "write"]
    /\ UNCHANGED <<req, urls, idx, cache, processed_text, shortened_text, stats,
                   response, persisted, serial, frag_len, frag_count>>

\* line 51 raising OSError: nothing is truncated
SaveOpenFails(r) ==
    /\ pc[r] = "open"
    /\ Log(r, "open", <<>>, Raised)
    /\ Fail(r, 500, "open")
    /\ UNCHANGED <<stats_file, req, urls, idx, cache, processed_text,
                   shortened_text, stats, persisted, serial, frag_len, frag_count>>

\* what the file holds after `doc` is written at offset 0: `doc`, or, when
\* another request wrote a longer document after this one opened the file,
\* `doc` followed by the end of that document
Written(file, doc) ==
    IF file.content = "empty" THEN {FileJson(doc)} ELSE {FileJson(doc), FileJunk}

\* the response with the request's raw text as original_text
SuccessRawText(r) ==
    [status |-> 200,
     original_text |-> req[r].text,
     shortened_text |-> shortened_text[r],
     original_length |-> original_length(r),
     shortened_length |-> shortened_length(r),
     characters_saved |-> characters_saved(original_length(r), shortened_length(r)),
     cost_savings |-> Round2(cost_savings(original_sms_count(r), new_sms_count(r))),
     new_sms_count |-> new_sms_count(r)]

\* lines 178-186
Success(r) ==
    [status |-> 200,
     original_text |-> processed_text[r],
     shortened_text |-> shortened_text[r],
     original_length |-> original_length(r),
     shortened_length |-> shortened_length(r),
     characters_saved |-> characters_saved(original_length(r), shortened_length(r)),
     cost_savings |-> Round2(cost_savings(original_sms_count(r), new_sms_count(r))),
     new_sms_count |-> new_sms_count(r)]

\* line 52 and the end of the with block, then lines 178-186
SaveWrite(r) ==
    /\ pc[r] = "write"
    /\ Log(r, "write", <<>>, Done)
    /\ stats_file' \in Written(stats_file, stats[r])
    /\ persisted' = IF stats_file'.content = "json"
                    THEN Append(persisted, stats_file'.doc)
                    ELSE persisted
    /\ response' = [response EXCEPT ![r] = Success(r)]
    /\ pc' = [pc EXCEPT ![r] = "done"]
    /\ UNCHANGED <<req, urls, idx, cache, processed_text, shortened_text, stats,
                   serial, frag_len, frag_count>>

\* line 52 or the closing flush raising OSError: nothing is written
SaveWriteFails(r) ==
    /\ pc[r] = "write"
    /\ Log(r, "write", <<>>, Raised)
    /\ Fail(r, 500, "write")
    /\ UNCHANGED <<stats_file, req, urls, idx, cache, processed_text,
                   shortened_text, stats, persisted, serial, frag_len, frag_count>>

\* ------------------------------------------------------------------ specifications

\* Spec: NumRequests requests, served at once
RequestsConc ==
    [text : {<<>>, URL_A, LongText}, max_chars : {160}, shorten_urls : {TRUE},
     business_sector : {"General"}, protect_variables : {TRUE},
     target_language : {"English"}]

IsgdConc == {IsgdExc, IsgdResp(200, SHORT_1)}

OracleConc == {OracleExc, OracleContent(None), OracleContent(SHORT_1)}

Next ==
    \E r \in Workers :
        \/ Receive(r, RequestsConc)
        \/ ShortenLoop(r, IsgdConc)
        \/ Substitute(r)
        \/ CallOracle(r, OracleConc)
        \/ LoadStats(r)
        \/ LoadStatsFails(r)
        \/ SaveOpen(r)
        \/ SaveOpenFails(r)
        \/ SaveWrite(r)
        \/ SaveWriteFails(r)

Spec == Init /\ [][Next]_vars

\* SpecUrl: one request, its text drawn from the concatenations of pieces
RequestsUrl ==
    [text : TextsUpTo(MaxPieces), max_chars : {4}, shorten_urls : BOOLEAN,
     business_sector : {"General"}, protect_variables : {TRUE},
     target_language : {"English"}]

OracleUrl == {OracleExc, OracleContent(<<"a", "b">>)}

NextUrl ==
    \/ Receive(1, RequestsUrl)
    \/ ShortenLoop(1, IsgdOutcomes)
    \/ Substitute(1)
    \/ CallOracle(1, OracleUrl)
    \/ LoadStats(1)
    \/ LoadStatsFails(1)
    \/ SaveOpen(1)
    \/ SaveOpenFails(1)
    \/ SaveWrite(1)
    \/ SaveWriteFails(1)

SpecUrl == Init /\ [][NextUrl]_vars

\* SpecCap: one request, every answer of the compaction oracle
RequestsCap ==
    [text : {<<>>, <<"a", "b">>, URL_A \o <<".">>, LongText},
     max_chars : {1, 4, 160, 200}, shorten_urls : BOOLEAN,
     business_sector : {"General", "", "Retail"}, protect_variables : BOOLEAN,
     target_language : {"English", "French"}]

LongContent == [i \in 1..(FRAG_SIZE + 1) |-> "b"]

OracleCap ==
    {OracleExc, OracleContent(None), OracleContent(<<>>), OracleContent(<<" ">>),
     OracleContent(<<"a", "b">>), OracleContent(<<"a", ".", " ", ",", "b">>),
     OracleContent(<<" ", "a", "b", ".", " ">>), OracleContent(LongContent)}

NextCap ==
    \/ Receive(1, RequestsCap)
    \/ ShortenLoop(1, IsgdConc)
    \/ Substitute(1)
    \/ CallOracle(1, OracleCap)
    \/ LoadStats(1)
    \/ LoadStatsFails(1)
    \/ SaveOpen(1)
    \/ SaveOpenFails(1)
    \/ SaveWrite(1)
    \/ SaveWriteFails(1)

SpecCap == Init /\ [][NextCap]_vars

\* SpecFrag: _sms_fragments alone, on every length up to MaxLen
InitFrag ==
    /\ InitRequests
    /\ frag_len \in 0..MaxLen
    /\ frag_count = -1

Fragments ==
    /\ frag_count = -1
    /\ frag_count' = _sms_fragments(frag_len, FRAG_SIZE)
    /\ UNCHANGED <<stats_file, pc, req, urls, idx, cache, processed_text,
                   shortened_text, stats, response, calls, persisted, serial, frag_len>>

NextFrag == Fragments

SpecFrag == InitFrag /\ [][NextFrag]_vars

\* ------------------------------------------------------------------ claims

Ops(r) == {calls[r][k].op : k \in DOMAIN calls[r]}

IsgdEvents(r) == {k \in DOMAIN calls[r] : calls[r][k].op = "isgd"}

OracleEvents(r) == {k \in DOMAIN calls[r] : calls[r][k].op = "openai"}

Matches(r) == {urls[r][k] : k \in DOMAIN urls[r]}

\* the request is past the loop over its URLs and their substitution
Shortened(r) ==
    /\ pc[r] \notin {"idle", "urls"}
    /\ req[r].text # <<>>
    /\ req[r].shorten_urls

\* the normalized form of a matched token
NormalizeUrl(u) == RStripSet(u, {".", ",", ";", "!", "?"})

\* the trailing punctuation that normalization strips from a matched token
Suffix(u) == SubSeq(u, Len(NormalizeUrl(u)) + 1, Len(u))

EndsWith(s, p) ==
    /\ Len(p) <= Len(s)
    /\ SubSeq(s, Len(s) - Len(p) + 1, Len(s)) = p

IsgdFailed(e) == _shorten_with_isgd(e.arg, e.out) = None

NonNegative(doc) ==
    /\ doc.total_sms_shortened >= 0
    /\ doc.total_characters_saved >= 0
    /\ doc.total_cost_saved >= 0

Geq(d2, d1) ==
    /\ d2.total_sms_shortened >= d1.total_sms_shortened
    /\ d2.total_characters_saved >= d1.total_characters_saved
    /\ d2.total_cost_saved >= d1.total_cost_saved

\* the least k with k * 160 >= n
Ceil160(n) == CHOOSE k \in 0..n : k * 160 >= n /\ (k = 0 \/ (k - 1) * 160 < n)

\* C1: a request of SpecCap (one request, on a ledger of zeros) either
\* answers 200 with the ledger holding its update, or answers an error with
\* the ledger exactly as before the request.
C1_NoPartialSuccess ==
    \A r \in Workers :
        /\ response[r].status = 200 => stats_file = FileJson(stats[r])
        /\ response[r].status \in {400, 500} => stats_file = FileJson(ZeroStats)

\* C2: a request with a missing or empty text is answered 400 at once: no
\* call to is.gd, no call to the compaction oracle, no read or write of the
\* ledger.
C2_EmptyTextRejected ==
    \A r \in Workers :
        (pc[r] # "idle" /\ req[r].text = <<>>) =>
            /\ pc[r] = "done"
            /\ response[r] = Error(400, "No text provided")
            /\ calls[r] = <<>>
            /\ stats_file = FileJson(ZeroStats)
            /\ persisted = <<ZeroStats>>

C2_Witness ==
    \E r \in Workers :
        /\ pc[r] = "done"
        /\ req[r].text = <<>>
        /\ req[r].shorten_urls
        /\ response[r].status = 400

\* C3: once the URLs of a request are shortened, is.gd has been called
\* exactly once for each distinct normalized URL of the text.
C3_OncePerNormalizedUrl ==
    \A r \in Workers :
        Shortened(r) =>
            \A n \in {NormalizeUrl(u) : u \in Matches(r)} :
                Cardinality({k \in IsgdEvents(r) :
                                NormalizeUrl(calls[r][k].arg) = n}) = 1

\* C4: no URL sent to is.gd carries trailing punctuation, the text put in
\* place of a match keeps the punctuation that followed the URL, and matches
\* with the same normalized URL get the same replacement.
C4_PunctuationKept ==
    \A r \in Workers :
        Shortened(r) =>
            /\ \A k \in IsgdEvents(r) : NormalizeUrl(calls[r][k].arg) = calls[r][k].arg
            /\ \A u \in Matches(r) : EndsWith(cache[r][u], Suffix(u))
            /\ \A u, v \in Matches(r) :
                   NormalizeUrl(u) = NormalizeUrl(v) =>
                       NormalizeUrl(cache[r][u]) = NormalizeUrl(cache[r][v])

\* C5: a URL whose is.gd call failed stands for itself in the cache (so the
\* substitution leaves it as it was), every matched URL is still sent to
\* is.gd, a text whose calls all failed is unchanged, the request goes on to
\* the compaction oracle, and no error response is sent before that call.
C5_ShortenFailureRecovered ==
    \A r \in Workers :
        /\ \A k \in IsgdEvents(r) :
               IsgdFailed(calls[r][k]) => cache[r][calls[r][k].arg] = calls[r][k].arg
        /\ Shortened(r) =>
               /\ {calls[r][k].arg : k \in IsgdEvents(r)} = Matches(r)
               /\ (\A k \in IsgdEvents(r) : IsgdFailed(calls[r][k])) =>
                      processed_text[r] = req[r].text
               /\ pc[r] = "oracle" \/ "openai" \in Ops(r)
        /\ response[r].status = 500 => "openai" \in Ops(r)

\* a first URL failed, a later one was shortened, and the request went on
C5_Witness ==
    \E r \in Workers :
        /\ pc[r] = "load"
        /\ \E k1, k2 \in IsgdEvents(r) :
               /\ k1 < k2
               /\ IsgdFailed(calls[r][k1])
               /\ ~IsgdFailed(calls[r][k2])
               /\ processed_text[r] # req[r].text

\* C6: in a 200 response to a request with target_language "English" and
\* max_chars >= 1, shortened_length is the length of shortened_text and is at
\* most max_chars.
C6_WithinMaxChars ==
    \A r \in Workers :
        (/\ response[r].status = 200
         /\ req[r].target_language = "English"
         /\ req[r].max_chars >= 1) =>
            /\ response[r].shortened_length = Len(response[r].shortened_text)
            /\ response[r].shortened_length <= req[r].max_chars

\* the oracle's answer was longer than max_chars
C6_Witness ==
    \E r \in Workers :
        /\ response[r].status = 200
        /\ req[r].target_language = "English"
        /\ req[r].max_chars >= 1
        /\ \E k \in OracleEvents(r) :
               /\ calls[r][k].out.content # None
               /\ Len(Strip(calls[r][k].out.content)) > req[r].max_chars
        /\ response[r].shortened_length >= 1

\* C7: a request whose compaction call returned empty or missing content
\* ends with an error response, and no ledger document is stored.
C7_EmptyContentIsError ==
    \A r \in Workers :
        (/\ pc[r] = "done"
         /\ \E k \in OracleEvents(r) :
                /\ calls[r][k].out.kind = "ok"
                /\ calls[r][k].out.content \in {None, <<>>}) =>
            /\ response[r].status = 500
            /\ persisted = <<ZeroStats>>

\* C8: with requests served at once an update can be lost but none is
\* invented: the stored request count is at most the number of requests
\* answered 200, and at least 1 once one of them was.
C8_UpdatesOnlyLost ==
    LET n == Cardinality({r \in Workers : response[r].status = 200})
    IN  stats_file.content = "json" =>
            /\ stats_file.doc.total_sms_shortened <= n
            /\ n >= 1 => stats_file.doc.total_sms_shortened >= 1

\* two requests answered 200, the count only 1 higher than before them, and
\* the characters and the cost saved by one of them missing from the totals
C8_Witness ==
    \E r1, r2 \in Workers :
        /\ r1 # r2
        /\ response[r1].status = 200
        /\ response[r2].status = 200
        /\ response[r1].characters_saved > 0
        /\ response[r1].cost_savings > 0
        /\ stats_file.content = "json"
        /\ stats_file.doc.total_sms_shortened = 1
        /\ stats_file.doc.total_characters_saved = response[r2].characters_saved
        /\ stats_file.doc.total_cost_saved =
               cost_savings(original_sms_count(r2), new_sms_count(r2))

NeverDecreases ==
    \A k \in 1..(Len(persisted) - 1) : Geq(persisted[k + 1], persisted[k])

\* C9 as stated: every counter of every document the file has held is
\* non-negative, and no counter decreases from one document to the next.
C9_NeverDecreases ==
    /\ \A k \in DOMAIN persisted : NonNegative(persisted[k])
    /\ NeverDecreases

\* C9 as amended: the counters are non-negative, and they never decrease
\* while no two requests have been in progress at once.
C9_SerialNeverDecreases ==
    /\ \A k \in DOMAIN persisted : NonNegative(persisted[k])
    /\ serial => NeverDecreases

\* two requests, one after the other, each stored its characters saved
C9_Witness ==
    /\ serial
    /\ Len(persisted) = 3
    /\ persisted[2].total_characters_saved > 0
    /\ persisted[3].total_characters_saved > persisted[2].total_characters_saved

\* C10 as stated: _sms_fragments(n) is ceiling(n / 160) for n >= 1, and 1
\* for n = 0.
C10_FragmentsOneAtZero ==
    frag_count # -1 =>
        /\ frag_len >= 1 => frag_count = Ceil160(frag_len)
        /\ frag_len = 0 => frag_count = 1

\* C10 as amended: _sms_fragments(n) is ceiling(n / 160) for every n >= 0,
\* which is 0 for n = 0.
C10_FragmentsCeiling ==
    frag_count # -1 =>
        /\ frag_count = Ceil160(frag_len)
        /\ frag_len = 0 => frag_count = 0

\* an exact multiple of 160 has been counted
C10_Witness ==
    /\ frag_count # -1
    /\ frag_len = 2 * FRAG_SIZE

\* the cost the claim gives for a pair of lengths, in 1/10000 pounds
ExpectedCost(original_len, final_len) ==
    LET d == (Ceil160(original_len) - Ceil160(final_len)) * SMS_COST_PER_FRAGMENT
    IN  IF d > 0 THEN d ELSE 0

\* v is c rounded to two decimals: a whole number of pence nearest to c
RoundedToPence(v, c) ==
    /\ v % 100 = 0
    /\ v - c <= 50
    /\ c - v <= 50

\* what the last stored document added to total_cost_saved
AddedCost ==
    persisted[Len(persisted)].total_cost_saved
        - persisted[Len(persisted) - 1].total_cost_saved

\* C11 as stated: the cost_savings of a 200 response and the amount the
\* request added to total_cost_saved both equal
\* max(0, (fragments(original) - fragments(final)) * 0.0225), and neither is
\* negative.
C11_CostExactEverywhere ==
    \A r \in Workers :
        response[r].status = 200 /\ stats_file.content = "json" =>
            LET c == ExpectedCost(response[r].original_length,
                                  response[r].shortened_length)
            IN  /\ response[r].cost_savings = c
                /\ AddedCost = c
                /\ response[r].cost_savings >= 0
                /\ AddedCost >= 0

\* C11 as amended: the amount added to total_cost_saved equals
\* max(0, (fragments(original) - fragments(final)) * 0.0225); the
\* cost_savings of the response is that amount rounded to two decimals; and
\* neither is negative, also when the final text has more fragments.
C11_CostRoundedInResponse ==
    \A r \in Workers :
        response[r].status = 200 /\ stats_file.content = "json" =>
            LET c == ExpectedCost(response[r].original_length,
                                  response[r].shortened_length)
            IN  /\ RoundedToPence(response[r].cost_savings, c)
                /\ AddedCost = c
                /\ response[r].cost_savings >= 0
                /\ AddedCost >= 0

\* a 200 response whose final text has more fragments than the original
C11_Witness ==
    \E r \in Workers :
        /\ response[r].status = 200
        /\ stats_file.content = "json"
        /\ Ceil160(response[r].shortened_length)
               > Ceil160(response[r].original_length)
        /\ response[r].cost_savings = 0
        /\ AddedCost = 0

\* the oracle's answer to request r, trimmed of surrounding whitespace
Candidate(r) ==
    LET k == CHOOSE k \in OracleEvents(r) : TRUE
        c == calls[r][k].out.content
    IN  Strip(IF c = None THEN <<>> ELSE c)

\* C12: the hard truncation is applied only for target_language "English":
\* a request with another target_language whose oracle output is longer than
\* max_chars is answered with the oracle's output, not truncated.
C12_TruncatedOnlyForEnglish ==
    \A r \in Workers :
        (/\ response[r].status = 200
         /\ req[r].target_language # "English"
         /\ Len(Candidate(r)) > req[r].max_chars) =>
            response[r].shortened_text = Candidate(r)

\* the prompt request r gave to the compaction oracle
PromptOf(r) ==
    LET k == CHOOSE k \in OracleEvents(r) : TRUE
    IN  calls[r][k].arg.prompt

\* the tone directive with a sector's name in it
ToneDirective(sector) == <<" Adjust the tone to suit the ", sector, " sector.">>

\* C13: the prompt always holds a tone directive with the request's
\* business_sector interpolated verbatim, for every sector, "General" and
\* the empty string included.
C13_ToneAlways ==
    \A r \in Workers :
        OracleEvents(r) # {} =>
            PromptOf(r).sector_instruction = ToneDirective(req[r].business_sector)

\* the directive that protects placeholders in square brackets
ProtectionDirective ==
    "Do not alter, delete or translate any text in [square brackets]."

\* a directive that speaks of the placeholders in square brackets
IsProtection(d) == d = ProtectionDirective

HasProtection(prompt) ==
    \E k \in DOMAIN prompt.directives : IsProtection(prompt.directives[k])

\* C14: the prompt holds the placeholder-protection directive exactly when
\* the request's protect_variables is true, and omits it exactly when it
\* is false.
C14_ProtectionIffRequested ==
    \A r \in Workers :
        OracleEvents(r) # {} =>
            (HasProtection(PromptOf(r)) <=> req[r].protect_variables)

\* the place of an operation in the order of the stages of a request
Stage(op) ==
    CASE op = "isgd" -> 1
      [] op = "openai" -> 2
      [] op = "load" -> 3
      [] op = "open" -> 4
      [] op = "write" -> 5

\* the events of request r that are calls of op
EventsOf(r, op) == {k \in DOMAIN calls[r] : calls[r][k].op = op}

\* the text of request r after the substitution of its URLs
AfterSubstitution(r) ==
    IF req[r].shorten_urls THEN Sub(req[r].text, cache[r]) ELSE req[r].text

\* C15: within one request the calls happen in the order URL shortening,
\* compaction oracle, ledger load, ledger store; the oracle, the load and the
\* store are each called at most once and no URL is sent to the shortening
\* oracle twice; the ledger is loaded and written only after the oracle has
\* returned; and the text handed to the oracle, returned as original_text
\* and measured as original_length is the text after URL substitution.
C15_StagesInOrder ==
    \A r \in Workers :
        /\ \A j, k \in DOMAIN calls[r] :
               j < k => Stage(calls[r][j].op) <= Stage(calls[r][k].op)
        /\ \A op \in {"openai", "load", "open", "write"} :
               Cardinality(EventsOf(r, op)) <= 1
        /\ \A j, k \in IsgdEvents(r) :
               calls[r][j].arg = calls[r][k].arg => j = k
        /\ \A k \in DOMAIN calls[r] :
               calls[r][k].op \in {"load", "open", "write"} =>
                   \E j \in OracleEvents(r) :
                       j < k /\ calls[r][j].out.kind = "ok"
        /\ OracleEvents(r) # {} =>
               PromptOf(r).message = AfterSubstitution(r)
        /\ response[r].status = 200 =>
               /\ response[r].original_text = PromptOf(r).message
               /\ response[r].original_length = Len(PromptOf(r).message)

\* a request answered 200 after two URLs were sent to the shortening oracle
\* and at least one of them was replaced in the text
C15_Witness ==
    \E r \in Workers :
        /\ response[r].status = 200
        /\ Cardinality(IsgdEvents(r)) = 2
        /\ response[r].original_text # req[r].text
        /\ Ops(r) = {"isgd", "openai", "load", "open", "write"}

\* the requests answered 200
Successful == {r \in Workers : response[r].status = 200}

\* document d2 is document d1 with the figures of request r added
AddsRequest(d1, d2, r) ==
    /\ d2.total_sms_shortened = d1.total_sms_shortened + 1
    /\ d2.total_characters_saved = d1.total_characters_saved
           + (IF response[r].original_length > response[r].shortened_length
              THEN response[r].original_length - response[r].shortened_length
              ELSE 0)
    /\ d2.total_cost_saved = d1.total_cost_saved
           + ExpectedCost(response[r].original_length, response[r].shortened_length)
    /\ response[r].characters_saved
           = d2.total_characters_saved - d1.total_characters_saved

\* C16: while no two requests have overlapped, every request answered 200
\* stored a document that is the one before it with the request count 1
\* higher, the characters saved max(0, original_length - shortened_length)
\* higher and the cost saved higher by the request's cost savings; and after
\* N such requests the stored request count is the initial 0 plus N.
C16_SerialUpdatesExact ==
    serial =>
        /\ Len(persisted) = 1 + Cardinality(Successful)
        /\ persisted[Len(persisted)].total_sms_shortened
               = persisted[1].total_sms_shortened + Cardinality(Successful)
        /\ \A r \in Successful :
               \E k \in 1..(Len(persisted) - 1) :
                   /\ persisted[k + 1] = stats[r]
                   /\ AddsRequest(persisted[k], persisted[k + 1], r)
        /\ \A r1, r2 \in Successful : r1 # r2 => stats[r1] # stats[r2]

\* two requests, one after the other, both answered 200, both with
\* characters and cost saved, and the stored count is 2
C16_Witness ==
    /\ serial
    /\ Cardinality(Successful) = 2
    /\ \A r \in Successful :
           response[r].characters_saved > 0 /\ response[r].cost_savings > 0
    /\ stats_file.content = "json"
    /\ stats_file.doc.total_sms_shortened = 2

\* what a URL of request r is replaced by, going by r's own calls alone
OwnOutcome(r, u) ==
    LET k == CHOOSE k \in IsgdEvents(r) : calls[r][k].arg = u
        short == _shorten_with_isgd(u, calls[r][k].out)
    IN  IF short = None THEN u ELSE short

\* C17: the URL cache lives for one request: each request past its URL
\* shortening has called the shortening oracle exactly once for every URL
\* matched in its own text, whatever other requests have cached, and its
\* text after substitution holds the outcomes of its own calls only.
C17_CachePerRequest ==
    \A r \in Workers :
        Shortened(r) =>
            /\ \A u \in Matches(r) :
                   Cardinality({k \in IsgdEvents(r) : calls[r][k].arg = u}) = 1
            /\ DOMAIN cache[r] = Matches(r)
            /\ \A u \in Matches(r) : cache[r][u] = OwnOutcome(r, u)
            /\ processed_text[r] =
                   IF Matches(r) = {} THEN req[r].text
                   ELSE Sub(req[r].text, cache[r])

\* two requests with the same URL, each past its URL shortening, of which
\* one got a short link and the other did not
C17_Witness ==
    \E r1, r2 \in Workers :
        /\ r1 # r2
        /\ Shortened(r1) /\ Shortened(r2)
        /\ req[r1].text = req[r2].text
        /\ Matches(r1) # {}
        /\ processed_text[r1] = req[r1].text
        /\ processed_text[r2] # req[r2].text

\* text t holds http:// or https:// followed by a character that is not
\* whitespace
HasUrlToken(t) ==
    \E i \in DOMAIN t :
        \E scheme \in {HTTP, HTTPS} :
            /\ i + Len(scheme) <= Len(t)
            /\ SubSeq(t, i, i + Len(scheme) - 1) = scheme
            /\ t[i + Len(scheme)] \notin Whitespace

\* C18: for a non-empty text without an http:// or https:// token, URL
\* shortening returns the text unchanged and calls the shortening oracle
\* not once.
C18_NoUrlNoCall ==
    \A r \in Workers :
        (Shortened(r) /\ ~HasUrlToken(req[r].text)) =>
            /\ processed_text[r] = req[r].text
            /\ IsgdEvents(r) = {}
            /\ OracleEvents(r) # {} => PromptOf(r).message = req[r].text

\* a text of punctuation and spaces went through URL shortening and on to
\* the compaction oracle
C18_Witness ==
    \E r \in Workers :
        /\ Shortened(r)
        /\ ~HasUrlToken(req[r].text)
        /\ Len(req[r].text) = MaxPieces
        /\ OracleEvents(r) # {}

\* C19: a request with shorten_urls false never calls the shortening
\* oracle, and the text given to the compaction oracle, returned as
\* original_text and measured as original_length is its raw text, URLs
\* included.
C19_ShorteningOff ==
    \A r \in Workers :
        (req[r].text # <<>> /\ ~req[r].shorten_urls) =>
            /\ IsgdEvents(r) = {}
            /\ OracleEvents(r) # {} => PromptOf(r).message = req[r].text
            /\ response[r].status = 200 =>
                   /\ response[r].original_text = req[r].text
                   /\ response[r].original_length = Len(req[r].text)

\* a request with shorten_urls false and a URL in its text was answered 200
C19_Witness ==
    \E r \in Workers :
        /\ ~req[r].shorten_urls
        /\ HasUrlToken(req[r].text)
        /\ response[r].status = 200
        /\ response[r].original_text = req[r].text

\* p is a prefix of s
IsPrefix(p, s) == Len(p) <= Len(s) /\ SubSeq(s, 1, Len(p)) = p

\* p is the first n characters of s without the '.', ' ' and ',' they end in
CutAndStripped(p, s, n) ==
    /\ IsPrefix(p, s)
    /\ Len(p) <= n
    /\ p # <<>> => p[Len(p)] \notin {".", " ", ","}
    /\ \A k \in (Len(p) + 1)..n : s[k] \in {".", " ", ","}

\* C20: the final text is a prefix of the oracle's trimmed candidate; a
\* candidate of at most max_chars characters is returned as it is, a
\* trailing '.' or ',' included; a longer one is cut to max_chars characters
\* and then stripped of the '.', ' ' and ',' at its end.
C20_ShortensFromTheRight ==
    \A r \in Workers :
        response[r].status = 200 =>
            /\ IsPrefix(response[r].shortened_text, Candidate(r))
            /\ Len(Candidate(r)) <= req[r].max_chars =>
                   response[r].shortened_text = Candidate(r)
            /\ Len(Candidate(r)) > req[r].max_chars =>
                   CutAndStripped(response[r].shortened_text, Candidate(r),
                                  req[r].max_chars)

\* a candidate longer than max_chars was cut and then lost the '.', ' ' or
\* ',' that the cut left at its end
C20_Witness ==
    \E r \in Workers :
        /\ response[r].status = 200
        /\ Len(Candidate(r)) > req[r].max_chars
        /\ response[r].shortened_length < req[r].max_chars
        /\ response[r].shortened_length >= 1

====
